---- MODULE Spec2Model ----
(***************************************************************************)
(* Model of the database layer of hl8-saas (packages/database/src/lib):    *)
(*   ConnectionManager     - the two EntityManager handles and their       *)
(*                           driver connections, the lifecycle hooks, the  *)
(*                           health probes                                 *)
(*   MigrationExecutor     - runMigrations, revertLastMigration, the two   *)
(*                           status reads and the two file-creating calls  *)
(*                           on top of the ORM migrator of the database    *)
(*   EntityManagerService  - create, findOne, find, update, remove, count, *)
(*                           getRepository, transaction                    *)
(*   MigrationUtils        - fileExists, createFile, the migration         *)
(*                           template, the file-name utilities             *)
(*                                                                         *)
(* The async methods are split at their awaits: a call in flight is a      *)
(* record with a position (pc).  Driver operations (connect, close, a      *)
(* migration's up/down, commit) succeed or fail as the environment         *)
(* decides; the failure input is drawn with \E.                            *)
(*                                                                         *)
(* What the ORM does behind a call is modelled by the contract of the call *)
(* the source makes:                                                       *)
(*   getMikroORM(db) is taken at its declared type, the MikroORM of db;    *)
(*   getMigrator().up() applies the pending migrations in file-name order  *)
(*     and rejects at the first that fails; with allOrNothing its rows are *)
(*     written when the whole run commits, otherwise after each migration; *)
(*   getMigrator().down() reverts the row inserted last, and resolves      *)
(*     without reverting when the migrations table is empty;               *)
(*   em.transactional(cb) commits when cb resolves and rolls back, then    *)
(*     rejects with cb's error, when cb rejects;                           *)
(*   persistAndFlush(e) inserts an entity the entity manager does not      *)
(*     manage and updates a managed one that was changed; an UPDATE or a   *)
(*     DELETE that matches no row is not an error;                         *)
(*   migrator.createMigration(path) takes the directory to write to as its *)
(*     first parameter;                                                    *)
(*   a driver call on a connection that is not open rejects.               *)
(***************************************************************************)
EXTENDS Integers, Sequences, FiniteSets, TLC

\* ------------------------------------------------------------------ bounds
\* migration files a database can have; a file is named by its timestamp
\* rank 1..NumUnits (file names start with the 13-digit timestamp, so the
\* migrator's name order is the timestamp order)
NumUnits == 3
\* entity identifiers a transaction's work may write
NumIds == 2
\* callers that may have a runMigrations call in flight
NumCallers == 2
\* digits a file name may start with
MaxDigits == 14
\* instants at which the clock may be read
NumTicks == 2

Targets == {"postgresql", "mongodb"}
Units == 1..NumUnits
Ids == 1..NumIds
Callers == 1..NumCallers

VARIABLES
    em,             \* em[t]: the EntityManager handle injected for t is present
    conn,           \* conn[t]: state of t's driver connection
    closeAttempted, \* closeAttempted[t]: close() has been called on t's connection
    lifecycle,      \* which lifecycle hooks of ConnectionManager have run
    ret,            \* outcome of the last completed single-step call
    files,          \* files[t]: migration files present for t
    executed,       \* executed[t]: rows of t's migrations table, insertion order
    allOrNothing,   \* the migrators wrap one up() in one transaction
    run,            \* run[c]: the runMigrations call of caller c
    rev,            \* the revertLastMigration call
    store,          \* store[t]: committed entities of t
    tx,             \* the transaction() call
    health,         \* the getAllConnectionsHealth call
    concurrent,     \* calls may overlap (when FALSE, a call settles before
                    \* the next one starts)
    disk,           \* disk[p]: content of the file at path p, if there is one
    cf,             \* cf[c]: the createFile call of caller c
    st              \* the getMigrationStatus call between its two reads

registryVars == <<em, conn, closeAttempted, lifecycle>>
migratorVars == <<files, executed, allOrNothing>>
utilVars == <<disk, cf, st>>
vars == <<em, conn, closeAttempted, lifecycle, ret, files, executed,
          allOrNothing, run, rev, store, tx, health, concurrent, disk, cf, st>>

\* ----------------------------------------------------------- call results
\* A call returns a value (a set: {} is void / undefined) or throws an error.
\* An error is the object thrown: what failed, on which database, on which unit.
Err(kind, t, u) == [kind |-> kind, target |-> t, unit |-> u]
NoError == Err("none", "none", 0)
Return(v) == [outcome |-> "return", value |-> v, error |-> NoError, logged |-> FALSE]
Throw(e) == [outcome |-> "throw", value |-> {}, error |-> e, logged |-> FALSE]
\* (a catch that logs the error and lets the method return)
LogAndReturn(r) ==
    IF r.outcome = "throw" THEN [Return({}) EXCEPT !.logged = TRUE] ELSE r
\* catch (error) { this.logger.error(..., error); throw error; }
LogAndRethrow(r) == IF r.outcome = "throw" THEN [r EXCEPT !.logged = TRUE] ELSE r

ConnectError(t) == Err("connect failed", t, 0)
CloseError(t) == Err("close failed", t, 0)
\* new Error('PostgreSQL连接不可用') / new Error('MongoDB连接不可用')
Unavailable(t) == Err("connection unavailable", t, 0)
\* what the driver rejects with on a connection that is not open
NotConnected(t) == Err("not connected", t, 0)

\* ------------------------------------------------------ ConnectionManager
\* getPostgresConnection / getMongoConnection: the only test is the handle.
getConnection(t) ==
    IF ~em[t] THEN Throw(Unavailable(t)) ELSE Return({t})

\* (an initializeConnections that closes what it opened when a later
\* connect() rejects)
initializeConnectionsUndoes(ok) ==
    LET pgCalled == em["postgresql"]
        pgThrows == pgCalled /\ ~ok["postgresql"]
        mgCalled == ~pgThrows /\ em["mongodb"]
        mgThrows == mgCalled /\ ~ok["mongodb"]
    IN [conn |-> [t \in Targets |->
                    IF t = "postgresql" /\ pgCalled /\ ~pgThrows
                    THEN (IF mgThrows THEN "closed" ELSE "open")
                    ELSE IF t = "mongodb" /\ mgCalled /\ ~mgThrows THEN "open"
                    ELSE conn[t]],
        result |-> IF pgThrows THEN Throw(ConnectError("postgresql"))
                   ELSE IF mgThrows THEN Throw(ConnectError("mongodb"))
                   ELSE Return({})]

\* initializeConnections: PostgreSQL first, then MongoDB; a handle that is
\* missing is skipped; the first connect() that rejects ends the method.
\* ok[t] is the driver's answer to connect() on t.
initializeConnections(ok) ==
    LET pgCalled == em["postgresql"]
        pgThrows == pgCalled /\ ~ok["postgresql"]
        mgCalled == ~pgThrows /\ em["mongodb"]
        mgThrows == mgCalled /\ ~ok["mongodb"]
        opened == {t \in Targets :
                     \/ t = "postgresql" /\ pgCalled /\ ~pgThrows
                     \/ t = "mongodb" /\ mgCalled /\ ~mgThrows}
    IN [conn |-> [t \in Targets |-> IF t \in opened THEN "open" ELSE conn[t]],
        result |-> IF pgThrows THEN Throw(ConnectError("postgresql"))
                   ELSE IF mgThrows THEN Throw(ConnectError("mongodb"))
                   ELSE Return({})]

\* onModuleInit: try { await initializeConnections() } catch { log; throw }
onModuleInit(ok) ==
    LET r == initializeConnections(ok)
    IN [conn |-> r.conn, result |-> LogAndRethrow(r.result)]

\* closeConnections: PostgreSQL first, then MongoDB; a missing handle is
\* skipped; a close() that rejects ends the method, so MongoDB's close() is
\* reached only when PostgreSQL's did not reject.
closeConnections(ok) ==
    LET pgCalled == em["postgresql"]
        pgThrows == pgCalled /\ ~ok["postgresql"]
        mgCalled == ~pgThrows /\ em["mongodb"]
        mgThrows == mgCalled /\ ~ok["mongodb"]
        called == {t \in Targets :
                     \/ t = "postgresql" /\ pgCalled
                     \/ t = "mongodb" /\ mgCalled}
        closed == {t \in Targets :
                     \/ t = "postgresql" /\ pgCalled /\ ~pgThrows
                     \/ t = "mongodb" /\ mgCalled /\ ~mgThrows}
    IN [conn |-> [t \in Targets |-> IF t \in closed THEN "closed" ELSE conn[t]],
        attempted |-> [t \in Targets |-> closeAttempted[t] \/ t \in called],
        result |-> IF pgThrows THEN Throw(CloseError("postgresql"))
                   ELSE IF mgThrows THEN Throw(CloseError("mongodb"))
                   ELSE Return({})]

\* the catch of onModuleDestroy: the error is logged and not thrown again
destroyRethrows(r) == LogAndRethrow(r)
destroyCatch(r) ==
    IF r.outcome = "throw" THEN [Return({}) EXCEPT !.logged = TRUE] ELSE r

\* onModuleDestroy: try { await closeConnections() } catch { log }
onModuleDestroy(ok) ==
    LET r == closeConnections(ok)
    IN [conn |-> r.conn, attempted |-> r.attempted, closeResult |-> r.result,
        result |-> destroyCatch(r.result)]

\* ------------------------------------------------------- calls in flight
IdleRun == [pc |-> "idle", target |-> "none", todo |-> <<>>, applied |-> <<>>,
            failed |-> 0, before |-> <<>>, count |-> {}, result |-> Return({})]
IdleRev == [pc |-> "idle", target |-> "none", unit |-> 0, before |-> <<>>,
            result |-> Return({})]
IdleTx == [pc |-> "idle", target |-> "none", writes |-> {}, before |-> {},
           raised |-> FALSE, result |-> Return({})]
\* a single-step call: the operation, its arguments (database, entity id,
\* migration name, the string and the number given to a file-name utility),
\* the lifecycle state it ran in, the store it found, what it wrote and
\* under which file name, what
\* its health probe or its close calls came to, its outcome
NoCall == [op |-> "none", target |-> "none", at |-> "constructed",
           id |-> 0, name |-> "", before |-> {}, wrote |-> "nothing",
           text |-> <<>>, timestamp |-> <<>>, fileName |-> <<>>,
           probe |-> Return({}),
           closeResult |-> Return({}), result |-> Return({})]
Call(op, db, r) ==
    [NoCall EXCEPT !.op = op, !.target = db, !.at = lifecycle, !.result = r]

\* getAllConnectionsHealth: the two probes in flight; probe[t] is what the
\* probe of t came to, value[t] what isHealthy of t resolved with, order
\* the order in which the two settled
NotSettled == [outcome |-> "pending", value |-> {}, error |-> NoError,
               logged |-> FALSE]
IdleHealth == [pc |-> "idle", probe |-> [t \in Targets |-> NotSettled],
               value |-> [t \in Targets |-> NotSettled], order |-> <<>>,
               result |-> Return({})]

\* createFile: the path, the content and the override flag it was given,
\* whether the file system answered its check, whether it wrote the file
Paths == {"migrations/postgresql", "migrations/mongodb"}
Contents == {"first", "second"}
Absent == "no file"
IdleCreate == [pc |-> "idle", path |-> "none", content |-> "none",
               override |-> TRUE, reachable |-> TRUE, wrote |-> FALSE,
               result |-> Return({})]
\* getMigrationStatus: what its first read returned
IdleStatus == [pc |-> "idle", target |-> "none", pending |-> <<>>,
               result |-> Return({})]

Settled(pc) == pc \in {"idle", "done"}
AllIdle == /\ \A c \in Callers : Settled(run[c].pc)
           /\ Settled(rev.pc)
           /\ Settled(tx.pc)
           /\ Settled(health.pc)
           /\ \A c \in Callers : Settled(cf[c].pc)
           /\ Settled(st.pc)
\* a call may start while another is in flight only when calls may overlap
CanStart == concurrent \/ AllIdle
\* the record of a settled call is kept until the next call starts
ForgetRun == [c \in Callers |-> IF Settled(run[c].pc) THEN IdleRun ELSE run[c]]
ForgetRev == IF Settled(rev.pc) THEN IdleRev ELSE rev
ForgetTx == IF Settled(tx.pc) THEN IdleTx ELSE tx
ForgetHealth == IF Settled(health.pc) THEN IdleHealth ELSE health

\* ------------------------------------------------ ConnectionManager steps
GetConnection(t) ==
    /\ CanStart
    /\ ret' = Call("getConnection", t, getConnection(t))
    /\ run' = ForgetRun /\ rev' = ForgetRev /\ tx' = ForgetTx
    /\ health' = ForgetHealth
    /\ UNCHANGED <<registryVars, migratorVars, store, concurrent, utilVars>>

OnModuleInit ==
    /\ CanStart
    /\ lifecycle = "constructed"
    /\ \E ok \in [Targets -> BOOLEAN] :
         LET r == onModuleInit(ok)
         IN /\ conn' = r.conn
            /\ lifecycle' = IF r.result.outcome = "return"
                            THEN "initialized" ELSE "initFailed"
            /\ ret' = Call("onModuleInit", "none", r.result)
    /\ run' = ForgetRun /\ rev' = ForgetRev /\ tx' = ForgetTx
    /\ health' = ForgetHealth
    /\ UNCHANGED <<em, closeAttempted, migratorVars, store, concurrent, utilVars>>

OnModuleDestroy ==
    /\ CanStart
    /\ lifecycle # "destroyed"
    /\ \E ok \in [Targets -> BOOLEAN] :
         LET r == onModuleDestroy(ok)
         IN /\ conn' = r.conn
            /\ closeAttempted' = r.attempted
            /\ ret' = [Call("onModuleDestroy", "none", r.result)
                          EXCEPT !.closeResult = r.closeResult]
    /\ lifecycle' = "destroyed"
    /\ run' = ForgetRun /\ rev' = ForgetRev /\ tx' = ForgetTx
    /\ health' = ForgetHealth
    /\ UNCHANGED <<em, migratorVars, store, concurrent, utilVars>>

\* ---- health
NoHandle(t) == Err("no handle", t, 0)
ProbeFailed(t) == Err("probe failed", t, 0)

\* await this.postgresEm.execute('SELECT 1') / this.mongoEm.execute('ping'):
\* without a handle the call itself throws, on a connection that is not open
\* or when the round trip fails (ok is the driver's answer) it rejects
probe(t, ok) ==
    IF ~em[t] THEN Throw(NoHandle(t))
    ELSE IF conn[t] # "open" THEN Throw(NotConnected(t))
    ELSE IF ~ok THEN Throw(ProbeFailed(t))
    ELSE Return({})

\* (a probe whose catch throws the error again)
healthRethrows(r) ==
    IF r.outcome = "throw" THEN LogAndRethrow(r) ELSE Return({TRUE})
\* try { await execute; return true } catch (error) { log; return false }
healthCatch(r) ==
    IF r.outcome = "throw" THEN [Return({FALSE}) EXCEPT !.logged = TRUE]
    ELSE Return({TRUE})

\* isPostgresHealthy / isMongoHealthy
isHealthy(t, ok) == healthCatch(probe(t, ok))

IsHealthy(t) ==
    /\ CanStart
    /\ \E ok \in BOOLEAN :
         ret' = [Call("isHealthy", t, isHealthy(t, ok)) EXCEPT
                   !.probe = probe(t, ok)]
    /\ run' = ForgetRun /\ rev' = ForgetRev /\ tx' = ForgetTx
    /\ health' = ForgetHealth
    /\ UNCHANGED <<registryVars, migratorVars, store, concurrent, utilVars>>

\* (a Promise.all that hands out the values in the order of settling)
promiseAllBySettling(value, order) ==
    IF \E t \in Targets : value[t].outcome = "throw"
    THEN CHOOSE r \in {value[t] : t \in Targets} : r.outcome = "throw"
    ELSE Return({[postgresql |-> TRUE \in value[order[1]].value,
                  mongodb |-> TRUE \in value[order[2]].value]})
\* const [postgresql, mongodb] = await Promise.all([isPostgresHealthy(),
\* isMongoHealthy()]): the values in the order of the array, whichever
\* settled first; a rejection of either rejects the whole
promiseAll(value, order) ==
    IF \E t \in Targets : value[t].outcome = "throw"
    THEN CHOOSE r \in {value[t] : t \in Targets} : r.outcome = "throw"
    ELSE Return({[postgresql |-> TRUE \in value["postgresql"].value,
                  mongodb |-> TRUE \in value["mongodb"].value]})

\* getAllConnectionsHealth up to its await: both probes are started
AllHealthBegin ==
    /\ CanStart
    /\ Settled(health.pc)
    /\ health' = [IdleHealth EXCEPT !.pc = "probing"]
    /\ ret' = NoCall
    /\ run' = ForgetRun /\ rev' = ForgetRev /\ tx' = ForgetTx
    /\ UNCHANGED <<registryVars, migratorVars, store, concurrent, utilVars>>

\* the probe of one database settles
AllHealthProbe(t) ==
    /\ health.pc = "probing"
    /\ health.probe[t] = NotSettled
    /\ \E ok \in BOOLEAN :
         health' = [health EXCEPT !.probe[t] = probe(t, ok),
                                  !.value[t] = isHealthy(t, ok),
                                  !.order = Append(@, t)]
    /\ UNCHANGED <<registryVars, migratorVars, ret, run, rev, store, tx, concurrent, utilVars>>

\* both have settled: return { postgresql, mongodb }
AllHealthEnd ==
    /\ health.pc = "probing"
    /\ \A t \in Targets : health.probe[t] # NotSettled
    /\ health' = [health EXCEPT !.pc = "done",
                                !.result = promiseAll(health.value, health.order)]
    /\ UNCHANGED <<registryVars, migratorVars, ret, run, rev, store, tx, concurrent, utilVars>>

\* ------------------------------------------------------ MigrationExecutor
\* values a caller may pass as the database argument
Databases == Targets \cup {"sqlite"}
Unsupported(db) == Err("unsupported database", db, 0)
UpFailed(t, u) == Err("up failed", t, u)
DownFailed(t, u) == Err("down failed", t, u)

\* getMikroORM: the switch on the database argument; the ORM of a database
\* is reached through the connection manager's getter for it.
getMikroORM(db) ==
    IF db \notin Targets THEN Throw(Unsupported(db)) ELSE getConnection(db)

Range(s) == {s[i] : i \in 1..Len(s)}
Min(S) == CHOOSE x \in S : \A y \in S : x <= y
RECURSIVE SortedSeq(_)
SortedSeq(S) == IF S = {} THEN <<>> ELSE <<Min(S)>> \o SortedSeq(S \ {Min(S)})
RECURSIVE Without(_, _)
Without(s, u) ==
    IF s = <<>> THEN <<>>
    ELSE IF Head(s) = u THEN Without(Tail(s), u)
    ELSE <<Head(s)>> \o Without(Tail(s), u)

\* (a migrator that leaves out what a call in flight has taken as its work)
PendingNotInFlight(t) ==
    SortedSeq((files[t] \ Range(executed[t]))
                  \ UNION {Range(run[c].todo) \cup Range(run[c].applied) :
                               c \in {k \in DOMAIN run : run[k].target = t
                                                          /\ run[k].pc = "up"}})


\* getMigrator().getPendingMigrations(): the files with no row in the
\* migrations table, in file-name order
Pending(t) == SortedSeq(files[t] \ Range(executed[t]))
\* getMigrator().getExecutedMigrations(): the rows, in insertion order
Executed(t) == executed[t]

\* the catch of runMigrations: log, then throw the same error
runSwallows(r) ==
    IF r.outcome = "throw" THEN [Return({}) EXCEPT !.logged = TRUE] ELSE r
runCatch(r) == LogAndRethrow(r)
\* after up() resolved: the number of migrations is logged, nothing is returned
runReturn(migrations) == Return({})
runLogCount(migrations) == {Len(migrations)}

\* runMigrations up to the first await inside up(): the ORM is resolved and
\* the migrator reads what is pending
RunMigrationsBegin(c, db) ==
    /\ CanStart
    /\ Settled(run[c].pc)
    /\ LET orm == getMikroORM(db)
       IN run' = [ForgetRun EXCEPT ![c] =
            IF orm.outcome = "throw"
            THEN [IdleRun EXCEPT !.pc = "done", !.target = db,
                                 !.result = runCatch(orm)]
            ELSE IF conn[db] # "open"
            THEN [IdleRun EXCEPT !.pc = "done", !.target = db,
                                 !.before = executed[db],
                                 !.result = runCatch(Throw(NotConnected(db)))]
            ELSE [IdleRun EXCEPT !.pc = "up", !.target = db,
                                 !.before = executed[db],
                                 !.todo = Pending(db)]]
    /\ ret' = NoCall /\ rev' = ForgetRev /\ tx' = ForgetTx
    /\ health' = ForgetHealth
    /\ UNCHANGED <<registryVars, migratorVars, store, concurrent, utilVars>>

\* (a runner that goes on to the next migration after one failed)
RunMigrationsApplyContinues(c) ==
    /\ run[c].pc = "up"
    /\ run[c].todo # <<>>
    /\ LET t == run[c].target
           u == Head(run[c].todo)
       IN \E ok \in BOOLEAN :
            IF ok /\ conn[t] = "open"
            THEN /\ run' = [run EXCEPT ![c].todo = Tail(@),
                                       ![c].applied = Append(@, u)]
                 /\ executed' = IF allOrNothing THEN executed
                                ELSE [executed EXCEPT ![t] = Append(@, u)]
            ELSE /\ run' = [run EXCEPT ![c].todo = Tail(@),
                                       ![c].failed = u,
                                       ![c].result = runCatch(Throw(UpFailed(t, u)))]
                 /\ UNCHANGED executed
    /\ UNCHANGED <<registryVars, files, allOrNothing, ret, rev, store, tx, concurrent, health, utilVars>>

\* (a migrator that writes the row of a migration before running it)
RunMigrationsApplyLogsFirst(c) ==
    /\ run[c].pc = "up"
    /\ run[c].todo # <<>>
    /\ LET t == run[c].target
           u == Head(run[c].todo)
       IN \E ok \in BOOLEAN :
            /\ executed' = [executed EXCEPT ![t] = Append(@, u)]
            /\ IF ok /\ conn[t] = "open"
               THEN run' = [run EXCEPT ![c].todo = Tail(@),
                                       ![c].applied = Append(@, u)]
               ELSE run' = [run EXCEPT ![c].pc = "done",
                                       ![c].failed = u,
                                       ![c].result = runCatch(Throw(UpFailed(t, u)))]
    /\ UNCHANGED <<registryVars, files, allOrNothing, ret, rev, store, tx, concurrent, health, utilVars>>

\* up() applies the next migration of its list; one that fails ends up():
\* the rest of the list is not attempted.  With allOrNothing the rows of
\* this call are written when up() commits, otherwise after each migration.
RunMigrationsApply(c) ==
    /\ run[c].pc = "up"
    /\ run[c].todo # <<>>
    /\ LET t == run[c].target
           u == Head(run[c].todo)
       IN \E ok \in BOOLEAN :
            IF ok /\ conn[t] = "open"
            THEN /\ run' = [run EXCEPT ![c].todo = Tail(@),
                                       ![c].applied = Append(@, u)]
                 /\ executed' = IF allOrNothing THEN executed
                                ELSE [executed EXCEPT ![t] = Append(@, u)]
            ELSE /\ run' = [run EXCEPT ![c].pc = "done",
                                       ![c].failed = u,
                                       ![c].result = runCatch(Throw(UpFailed(t, u)))]
                 /\ UNCHANGED executed
    /\ UNCHANGED <<registryVars, files, allOrNothing, ret, rev, store, tx, concurrent, health, utilVars>>

\* up() resolves with the migrations it applied; runMigrations logs and returns
RunMigrationsEnd(c) ==
    /\ run[c].pc = "up"
    /\ run[c].todo = <<>>
    /\ LET t == run[c].target
       IN /\ executed' = IF allOrNothing
                         THEN [executed EXCEPT ![t] = @ \o run[c].applied]
                         ELSE executed
          /\ run' = [run EXCEPT ![c].pc = "done",
                                ![c].count = runLogCount(run[c].applied),
                                ![c].result = runReturn(run[c].applied)]
    /\ UNCHANGED <<registryVars, files, allOrNothing, ret, rev, store, tx, concurrent, health, utilVars>>

\* down() with no argument picks the row inserted last
firstExecuted(t) == Executed(t)[1]
lastExecuted(t) == Executed(t)[Len(Executed(t))]

\* the catch of revertLastMigration: log, then throw the same error
revertCatch(r) == LogAndRethrow(r)

\* revertLastMigration up to the first await inside down(): down() with no
\* argument picks the last row of the migrations table; with no row it
\* resolves with nothing reverted and revertLastMigration returns.
RevertBegin(db) ==
    /\ CanStart
    /\ Settled(rev.pc)
    /\ LET orm == getMikroORM(db)
       IN rev' =
            IF orm.outcome = "throw"
            THEN [IdleRev EXCEPT !.pc = "done", !.target = db,
                                 !.result = revertCatch(orm)]
            ELSE IF conn[db] # "open"
            THEN [IdleRev EXCEPT !.pc = "done", !.target = db,
                                 !.before = executed[db],
                                 !.result = revertCatch(Throw(NotConnected(db)))]
            ELSE IF Executed(db) = <<>>
            THEN [IdleRev EXCEPT !.pc = "done", !.target = db,
                                 !.before = executed[db]]
            ELSE [IdleRev EXCEPT !.pc = "down", !.target = db,
                                 !.before = executed[db],
                                 !.unit = lastExecuted(db)]
    /\ ret' = NoCall /\ run' = ForgetRun /\ tx' = ForgetTx
    /\ health' = ForgetHealth
    /\ UNCHANGED <<registryVars, migratorVars, store, concurrent, utilVars>>

\* the migration's down() runs; on success its rows leave the migrations
\* table (the storage deletes by name), on failure nothing changes
RevertApply ==
    /\ rev.pc = "down"
    /\ LET t == rev.target
           u == rev.unit
       IN \E ok \in BOOLEAN :
            IF ok /\ conn[t] = "open"
            THEN /\ executed' = [executed EXCEPT ![t] = Without(@, u)]
                 /\ rev' = [rev EXCEPT !.pc = "done"]
            ELSE /\ rev' = [rev EXCEPT !.pc = "done",
                                       !.result = revertCatch(Throw(DownFailed(t, u)))]
                 /\ UNCHANGED executed
    /\ UNCHANGED <<registryVars, files, allOrNothing, ret, run, store, tx, concurrent, health, utilVars>>


\* names a caller may pass to generateMigration / createMigration
Names == {"", "AddUserTable"}
ReadFailed(t) == Err("read failed", t, 0)
CreateFailed(t) == Err("create migration failed", t, 0)

\* the migrator reads its table (and the migrations directory) through the
\* connection of the database: on a connection that is not open, or when the
\* driver fails (ok is its answer), the read rejects
migratorRead(orm, db, ok, v) ==
    IF orm.outcome = "throw" THEN orm
    ELSE IF conn[db] # "open" THEN Throw(NotConnected(db))
    ELSE IF ~ok THEN Throw(ReadFailed(db))
    ELSE Return({v})

\* getMigrationStatus: { pending: names of getPendingMigrations(),
\* executed: names of getExecutedMigrations() }; catch: log and throw again
getMigrationStatus(db, ok) ==
    LogAndRethrow(migratorRead(getMikroORM(db), db, ok,
        [pending |-> Pending(db), executed |-> Executed(db)]))

\* executed.map(m => ({ name, executedAt })): one record per row of the
\* migrations table, in the order of the table (the order of insertion,
\* which is the order of executedAt)
migrationHistory(t) == [i \in 1..Len(Executed(t)) |-> [name |-> Executed(t)[i]]]

\* getMigrationHistory: the rows of getExecutedMigrations(); catch: log and
\* throw again
getMigrationHistory(db, ok) ==
    LogAndRethrow(migratorRead(getMikroORM(db), db, ok, migrationHistory(db)))

GetMigrationStatus(db) ==
    /\ CanStart
    /\ \E ok \in BOOLEAN :
         ret' = Call("getMigrationStatus", db, getMigrationStatus(db, ok))
    /\ run' = ForgetRun /\ rev' = ForgetRev /\ tx' = ForgetTx
    /\ health' = ForgetHealth
    /\ UNCHANGED <<registryVars, migratorVars, store, concurrent, utilVars>>

GetMigrationHistory(db) ==
    /\ CanStart
    /\ \E ok \in BOOLEAN :
         ret' = Call("getMigrationHistory", db, getMigrationHistory(db, ok))
    /\ run' = ForgetRun /\ rev' = ForgetRev /\ tx' = ForgetTx
    /\ health' = ForgetHealth
    /\ UNCHANGED <<registryVars, migratorVars, store, concurrent, utilVars>>

\* getMigrationStatus in two steps, one for each read it awaits.  The call
\* is made and getPendingMigrations() answers:
GetMigrationStatusPending(db) ==
    /\ CanStart
    /\ Settled(st.pc)
    /\ \E ok \in BOOLEAN :
         LET r == migratorRead(getMikroORM(db), db, ok, Pending(db))
         IN st' = IF r.outcome = "throw"
                  THEN [IdleStatus EXCEPT !.pc = "done", !.target = db,
                                          !.result = LogAndRethrow(r)]
                  ELSE [IdleStatus EXCEPT !.pc = "executed", !.target = db,
                                          !.pending = Pending(db)]
    /\ UNCHANGED <<registryVars, migratorVars, ret, run, rev, store, tx, health,
                   concurrent, disk, cf>>

\* getExecutedMigrations() answers and the call returns the two lists
GetMigrationStatusExecuted ==
    /\ st.pc = "executed"
    /\ \E ok \in BOOLEAN :
         LET r == migratorRead(getMikroORM(st.target), st.target, ok,
                               [pending |-> st.pending,
                                executed |-> Executed(st.target)])
         IN st' = [st EXCEPT !.pc = "done", !.result = LogAndRethrow(r)]
    /\ UNCHANGED <<registryVars, migratorVars, ret, run, rev, store, tx, health,
                   concurrent, disk, cf>>

\* the file a migrator creates is stamped with the current time: it is the
\* newest of the database
newUnit(t) == Cardinality(files[t]) + 1

\* generateMigration / createMigration: with an empty name the method prints
\* a notice and returns before it looks at the database argument.  Otherwise
\* the ORM is resolved and migrator.createMigration is awaited: it rejects
\* (answer "failed"), finds nothing to write ("nothing") or writes a file
\* ("written"); the method returns nothing; catch: log and throw again.
newMigration(db, name, answer) ==
    IF name = "" THEN Return({})
    ELSE LET orm == getMikroORM(db)
         IN IF orm.outcome = "throw" THEN LogAndRethrow(orm)
            ELSE IF answer = "failed" THEN LogAndRethrow(Throw(CreateFailed(db)))
            ELSE Return({})

\* the name of the file the migrator writes: its class-name prefix and the
\* name the migrator was passed, if it was passed one
migrationFileName(passed) == <<"Migration">> \o passed

\* generateMigration calls createMigration() with no argument: the file goes
\* to the migrations directory of the database and is a new pending unit;
\* the migrator is not told the name
GenerateMigration(db, name) ==
    /\ CanStart
    /\ \E answer \in {"failed", "nothing", "written"} :
         LET r == newMigration(db, name, answer)
             writes == name # "" /\ r.outcome = "return" /\ answer = "written"
         IN /\ writes => newUnit(db) <= NumUnits
            /\ files' = IF writes THEN [files EXCEPT ![db] = @ \cup {newUnit(db)}]
                        ELSE files
            /\ ret' = [Call("generateMigration", db, r) EXCEPT
                          !.name = name,
                          !.wrote = IF writes THEN "migrations directory"
                                    ELSE "nothing",
                          !.fileName = IF writes THEN migrationFileName(<<>>)
                                       ELSE <<>>]
    /\ run' = ForgetRun /\ rev' = ForgetRev /\ tx' = ForgetTx
    /\ health' = ForgetHealth
    /\ UNCHANGED <<registryVars, executed, allOrNothing, store, concurrent, utilVars>>

\* createMigration calls createMigration(name): the migrator's first
\* parameter is the directory to write to, so the file, when one is written,
\* goes to a directory called as the name and the migrations directory of
\* the database is left as it was
CreateMigration(db, name) ==
    /\ CanStart
    /\ \E answer \in {"failed", "nothing", "written"} :
         LET r == newMigration(db, name, answer)
             writes == name # "" /\ r.outcome = "return" /\ answer = "written"
         IN ret' = [Call("createMigration", db, r) EXCEPT
                      !.name = name,
                      !.wrote = IF writes THEN "directory of the name"
                                ELSE "nothing",
                      !.fileName = IF writes THEN migrationFileName(<<>>)
                                   ELSE <<>>]
    /\ run' = ForgetRun /\ rev' = ForgetRev /\ tx' = ForgetTx
    /\ health' = ForgetHealth
    /\ UNCHANGED <<registryVars, migratorVars, store, concurrent, utilVars>>

\* --------------------------------------------------- EntityManagerService
WorkError(t) == Err("work raised", t, 0)
CommitError(t) == Err("commit failed", t, 0)

\* getEntityManager: the switch on the database argument
getEntityManager(db) ==
    IF db \notin Targets THEN Throw(Unsupported(db)) ELSE getConnection(db)

\* em.transactional(callback) once the callback has settled: when the
\* callback raised, the unit of work is rolled back and the callback's error
\* is thrown; when it returned, the unit of work is committed (a commit that
\* fails rolls back and throws).  committed: the store after the call.
transactionalKeepsWrites(committed, writes, raised, commitOk, t) ==
    [store |-> committed \cup writes,
     result |-> IF raised THEN Throw(WorkError(t))
                ELSE IF commitOk THEN Return({"result"})
                ELSE Throw(CommitError(t))]
transactional(committed, writes, raised, commitOk, t) ==
    IF raised THEN [store |-> committed, result |-> Throw(WorkError(t))]
    ELSE IF commitOk
    THEN [store |-> committed \cup writes, result |-> Return({"result"})]
    ELSE [store |-> committed, result |-> Throw(CommitError(t))]

\* transaction(): the result of em.transactional is returned; its error is
\* logged and thrown again
transactionCatch(r) == LogAndRethrow(r)

\* transaction up to the await: the entity manager is resolved, the unit of
\* work begins and the callback starts
TransactionBegin(db) ==
    /\ CanStart
    /\ Settled(tx.pc)
    /\ LET e == getEntityManager(db)
       IN tx' =
            IF e.outcome = "throw"
            THEN [IdleTx EXCEPT !.pc = "done", !.target = db,
                                !.result = transactionCatch(e)]
            ELSE IF conn[db] # "open"
            THEN [IdleTx EXCEPT !.pc = "done", !.target = db,
                                !.before = store[db],
                                !.result = transactionCatch(Throw(NotConnected(db)))]
            ELSE [IdleTx EXCEPT !.pc = "work", !.target = db,
                                !.before = store[db]]
    /\ ret' = NoCall /\ run' = ForgetRun /\ rev' = ForgetRev
    /\ health' = ForgetHealth
    /\ UNCHANGED <<registryVars, migratorVars, store, concurrent, utilVars>>

\* the callback persists an entity inside the unit of work
TransactionWrite(id) ==
    /\ tx.pc = "work"
    /\ id \notin tx.writes
    /\ tx' = [tx EXCEPT !.writes = @ \cup {id}]
    /\ UNCHANGED <<registryVars, migratorVars, ret, run, rev, store, concurrent, health, utilVars>>

\* the callback settles (returns or raises); em.transactional commits or
\* rolls back, and transaction() returns or throws
TransactionSettle(raised) ==
    /\ tx.pc = "work"
    /\ \E commitOk \in BOOLEAN :
         LET t == tx.target
             r == transactional(store[t], tx.writes, raised,
                                commitOk /\ conn[t] = "open", t)
         IN /\ store' = [store EXCEPT ![t] = r.store]
            /\ tx' = [tx EXCEPT !.pc = "done", !.raised = raised,
                                !.result = transactionCatch(r.result)]
    /\ UNCHANGED <<registryVars, migratorVars, ret, run, rev, concurrent, health, utilVars>>

\* ---- the operations of one await
QueryFailed(t) == Err("query failed", t, 0)
FlushFailed(t) == Err("flush failed", t, 0)

\* what every operation does first: the entity manager is resolved, then
\* the awaited ORM call goes to the driver, which rejects on a connection
\* that is not open or when the statement fails (ok is its answer)
driverCall(db, ok, failure) ==
    LET e == getEntityManager(db)
    IN IF e.outcome = "throw" THEN e
       ELSE IF conn[db] # "open" THEN Throw(NotConnected(db))
       ELSE IF ~ok THEN Throw(failure)
       ELSE Return({})

\* create: em.create(entityClass, data), persistAndFlush: an INSERT, which
\* the database rejects when the primary key is taken
create(db, id, ok) ==
    LET d == driverCall(db, ok, FlushFailed(db))
    IN IF d.outcome = "throw" THEN [store |-> store, result |-> LogAndRethrow(d)]
       ELSE IF id \in store[db]
       THEN [store |-> store, result |-> LogAndRethrow(Throw(FlushFailed(db)))]
       ELSE [store |-> [store EXCEPT ![db] = @ \cup {id}], result |-> Return({id})]

\* findOne: the entity or null;  find: the matching entities;  count: their
\* number.  The filter is the set of identifiers it matches.
findOne(db, id, ok) ==
    LET d == driverCall(db, ok, QueryFailed(db))
    IN IF d.outcome = "throw" THEN LogAndRethrow(d)
       ELSE Return(store[db] \cap {id})
find(db, where, ok) ==
    LET d == driverCall(db, ok, QueryFailed(db))
    IN IF d.outcome = "throw" THEN LogAndRethrow(d)
       ELSE Return(store[db] \cap where)
count(db, where, ok) ==
    LET d == driverCall(db, ok, QueryFailed(db))
    IN IF d.outcome = "throw" THEN LogAndRethrow(d)
       ELSE Return({Cardinality(store[db] \cap where)})

\* update: persistAndFlush(entity), the entity is returned.  For an entity
\* whose row exists the flush is an UPDATE when the entity was mutated (the
\* onUpdate hook of updatedAt runs with it) and nothing otherwise.  For an
\* entity whose row is gone there is no test in update(): when the entity
\* manager still manages the entity the UPDATE matches no row, when it does
\* not (the entity was removed through it) the flush is an INSERT.
update(db, id, mutated, managed, ok) ==
    LET d == driverCall(db, ok, FlushFailed(db))
    IN IF d.outcome = "throw"
       THEN [store |-> store, flushed |-> "nothing", result |-> LogAndRethrow(d)]
       ELSE IF id \in store[db]
       THEN [store |-> store,
             flushed |-> IF mutated THEN "update" ELSE "nothing",
             result |-> Return({id})]
       ELSE IF managed
       THEN [store |-> store,
             flushed |-> IF mutated THEN "update of no row" ELSE "nothing",
             result |-> Return({id})]
       ELSE [store |-> [store EXCEPT ![db] = @ \cup {id}],
             flushed |-> "insert",
             result |-> Return({id})]

\* remove: removeAndFlush(entity), a DELETE by primary key; there is no
\* test in remove() for a row that is already gone, the DELETE then matches
\* no row
remove(db, id, ok) ==
    LET d == driverCall(db, ok, FlushFailed(db))
    IN IF d.outcome = "throw" THEN [store |-> store, result |-> LogAndRethrow(d)]
       ELSE [store |-> [store EXCEPT ![db] = @ \ {id}], result |-> Return({})]

\* getRepository: no await and no try: what getEntityManager throws goes to
\* the caller as it is
getRepository(db) == getEntityManager(db)

\* the store a call found (a database that is not supported has none)
Found(db) == IF db \in Targets THEN store[db] ELSE {}

Create(db, id) ==
    /\ CanStart
    /\ \E ok \in BOOLEAN :
         LET r == create(db, id, ok)
         IN /\ store' = r.store
            /\ ret' = [Call("create", db, r.result) EXCEPT
                          !.id = id, !.before = Found(db)]
    /\ run' = ForgetRun /\ rev' = ForgetRev /\ tx' = ForgetTx
    /\ health' = ForgetHealth
    /\ UNCHANGED <<registryVars, migratorVars, concurrent, utilVars>>

FindOne(db, id) ==
    /\ CanStart
    /\ \E ok \in BOOLEAN :
         ret' = [Call("findOne", db, findOne(db, id, ok)) EXCEPT
                   !.id = id, !.before = Found(db)]
    /\ run' = ForgetRun /\ rev' = ForgetRev /\ tx' = ForgetTx
    /\ health' = ForgetHealth
    /\ UNCHANGED <<registryVars, migratorVars, store, concurrent, utilVars>>

Find(db, where) ==
    /\ CanStart
    /\ \E ok \in BOOLEAN :
         ret' = [Call("find", db, find(db, where, ok)) EXCEPT !.before = Found(db)]
    /\ run' = ForgetRun /\ rev' = ForgetRev /\ tx' = ForgetTx
    /\ health' = ForgetHealth
    /\ UNCHANGED <<registryVars, migratorVars, store, concurrent, utilVars>>

Count(db, where) ==
    /\ CanStart
    /\ \E ok \in BOOLEAN :
         ret' = [Call("count", db, count(db, where, ok)) EXCEPT !.before = Found(db)]
    /\ run' = ForgetRun /\ rev' = ForgetRev /\ tx' = ForgetTx
    /\ health' = ForgetHealth
    /\ UNCHANGED <<registryVars, migratorVars, store, concurrent, utilVars>>

Update(db, id) ==
    /\ CanStart
    /\ \E mutated \in BOOLEAN, managed \in BOOLEAN, ok \in BOOLEAN :
         LET r == update(db, id, mutated, managed, ok)
         IN /\ store' = r.store
            /\ ret' = [Call("update", db, r.result) EXCEPT
                          !.id = id, !.before = Found(db), !.wrote = r.flushed]
    /\ run' = ForgetRun /\ rev' = ForgetRev /\ tx' = ForgetTx
    /\ health' = ForgetHealth
    /\ UNCHANGED <<registryVars, migratorVars, concurrent, utilVars>>

Remove(db, id) ==
    /\ CanStart
    /\ \E ok \in BOOLEAN :
         LET r == remove(db, id, ok)
         IN /\ store' = r.store
            /\ ret' = [Call("remove", db, r.result) EXCEPT
                          !.id = id, !.before = Found(db)]
    /\ run' = ForgetRun /\ rev' = ForgetRev /\ tx' = ForgetTx
    /\ health' = ForgetHealth
    /\ UNCHANGED <<registryVars, migratorVars, concurrent, utilVars>>

GetRepository(db) ==
    /\ CanStart
    /\ ret' = Call("getRepository", db, getRepository(db))
    /\ run' = ForgetRun /\ rev' = ForgetRev /\ tx' = ForgetTx
    /\ health' = ForgetHealth
    /\ UNCHANGED <<registryVars, migratorVars, store, concurrent, utilVars>>


\* ----------------------------------------------------------- MigrationUtils
StatFailed == Err("stat failed", "none", 0)
\* fs.existsSync(path): true when the path can be reached; a failure to
\* reach it (no permission on a directory, an I/O error) is not raised
existsSync(present, reachable) == Return({present /\ reachable})
\* fileExists: try { return fs.existsSync(filePath) } catch { log; return false }
fileExists(present, reachable) ==
    LET r == existsSync(present, reachable)
    IN IF r.outcome = "throw" THEN [Return({FALSE}) EXCEPT !.logged = TRUE] ELSE r

\* the file is there or not, the file system answers or not
FileExists ==
    /\ CanStart
    /\ \E present \in BOOLEAN, reachable \in BOOLEAN :
         ret' = [Call("fileExists", "none", fileExists(present, reachable)) EXCEPT
                   !.probe = IF reachable THEN Return({present})
                             ELSE Throw(StatFailed)]
    /\ run' = ForgetRun /\ rev' = ForgetRev /\ tx' = ForgetTx
    /\ health' = ForgetHealth
    /\ UNCHANGED <<registryVars, migratorVars, store, concurrent, utilVars>>

\* ---- createFile
\* createDirectories: try { await mkdirp(directory) } catch { log; throw }
createDirectories(made) ==
    LogAndRethrow(IF made THEN Return({}) ELSE Throw(Err("mkdir failed", "none", 0)))

\* the call is made; it runs up to the await of createDirectories
CreateFileBegin(c, path, content, override) ==
    /\ CanStart
    /\ Settled(cf[c].pc)
    /\ cf' = [cf EXCEPT ![c] = [IdleCreate EXCEPT !.pc = "mkdirp",
                                                  !.path = path,
                                                  !.content = content,
                                                  !.override = override]]
    /\ UNCHANGED <<registryVars, migratorVars, ret, run, rev, store, tx, health,
                   concurrent, disk, st>>

\* mkdirp has settled.  When it failed, the catch of createFile logs and
\* rethrows.  Otherwise, without override, fileExists looks at the disk as it
\* is now: the call returns when the file is there, and hands the content to
\* fs.writeFile when it is not
CreateFileCheck(c) ==
    /\ cf[c].pc = "mkdirp"
    /\ \E made \in BOOLEAN, reachable \in BOOLEAN :
         LET dirs == createDirectories(made)
             exists == fileExists(disk[cf[c].path] # Absent, reachable)
         IN cf' = [cf EXCEPT ![c] =
                IF dirs.outcome = "throw"
                THEN [@ EXCEPT !.pc = "done", !.result = LogAndRethrow(dirs)]
                ELSE IF ~cf[c].override /\ TRUE \in exists.value
                THEN [@ EXCEPT !.pc = "done", !.result = Return({})]
                ELSE [@ EXCEPT !.pc = "write", !.reachable = reachable]]
    /\ UNCHANGED <<registryVars, migratorVars, ret, run, rev, store, tx, health,
                   concurrent, disk, st>>

\* fs.writeFile has run and calls back: the file holds the content, or the
\* write failed (as it does on a path that cannot be reached), which the
\* callback logs before it rejects
CreateFileWrite(c) ==
    /\ cf[c].pc = "write"
    /\ \E ok \in BOOLEAN :
         /\ ok => cf[c].reachable
         /\ disk' = IF ok THEN [disk EXCEPT ![cf[c].path] = cf[c].content]
                    ELSE disk
         /\ cf' = [cf EXCEPT ![c] =
                [@ EXCEPT !.pc = "done", !.wrote = ok,
                          !.result = IF ok THEN Return({})
                                     ELSE [Throw(Err("write failed", "none", 0)) EXCEPT
                                             !.logged = TRUE]]]
    /\ UNCHANGED <<registryVars, migratorVars, ret, run, rev, store, tx, health,
                   concurrent, st>>

\* ---- strings and numbers
\* A string is a sequence of characters.  A number is the sequence of its
\* decimal digits, most significant first and without a leading zero (the
\* timestamps are 13-digit numbers, all below 2^53, which a JavaScript
\* number holds exactly).
DigitChars == <<"0", "1", "2", "3", "4", "5", "6", "7", "8", "9">>
UpperChars == <<"A", "B", "D", "E", "J", "L", "R", "S", "T", "U">>
LowerChars == <<"a", "b", "d", "e", "j", "l", "r", "s", "t", "u">>
IsDigit(ch) == \E i \in DOMAIN DigitChars : DigitChars[i] = ch
IsUpper(ch) == \E i \in DOMAIN UpperChars : UpperChars[i] = ch
IsLower(ch) == \E i \in DOMAIN LowerChars : LowerChars[i] = ch
IsLetter(ch) == IsUpper(ch) \/ IsLower(ch)
\* String.prototype.toUpperCase and toLowerCase, one character at a time
toUpperCase(ch) ==
    IF IsLower(ch) THEN UpperChars[CHOOSE i \in DOMAIN LowerChars : LowerChars[i] = ch]
    ELSE ch
toLowerCase(ch) ==
    IF IsUpper(ch) THEN LowerChars[CHOOSE i \in DOMAIN UpperChars : UpperChars[i] = ch]
    ELSE ch
\* `${n}`: the decimal digits of the number n
numberToString(n) == [i \in 1..Len(n) |-> DigitChars[n[i] + 1]]
\* parseInt(s, 10) of a string of digits: leading zeros do not count
RECURSIVE dropZeros(_)
dropZeros(s) ==
    IF Len(s) > 1 /\ s[1] = "0" THEN dropZeros(Tail(s)) ELSE s
parseInt(s) ==
    LET d == dropZeros(s)
    IN [i \in 1..Len(d) |-> (CHOOSE k \in DOMAIN DigitChars : DigitChars[k] = d[i]) - 1]

\* ---- file names
\* the number of digits the two patterns ask for: \d{13}
TimestampDigits == 13
\* [a-zA-Z0-9]* from position i on: the position after the longest run
RECURSIVE wordEnd(_, _)
wordEnd(s, i) ==
    IF i <= Len(s) /\ (IsLetter(s[i]) \/ IsDigit(s[i])) THEN wordEnd(s, i + 1)
    ELSE i
TsOrJs == {<<".", "t", "s">>, <<".", "j", "s">>}
\* /^(\d{13})-([a-zA-Z][a-zA-Z0-9]*)\.(ts|js)$/ matched against s: the two
\* groups, or no match (the empty set).  The run of [a-zA-Z0-9] is followed
\* by a dot, which is not in the class, so the longest run is the only one
\* that can match.
matchFileName(s) ==
    LET d == TimestampDigits
        j == wordEnd(s, d + 3)
    IN IF /\ Len(s) >= d + 2
          /\ \A i \in 1..d : IsDigit(s[i])
          /\ s[d + 1] = "-"
          /\ IsLetter(s[d + 2])
          /\ SubSeq(s, j, Len(s)) \in TsOrJs
       THEN {[stamp |-> SubSeq(s, 1, d), name |-> SubSeq(s, d + 2, j - 1)]}
       ELSE {}
\* the same pattern without the digit count: ^\d+-...
matchAnyDigits(s) ==
    LET RunEnd == CHOOSE i \in 1..(Len(s) + 1) :
                      /\ \A k \in 1..(i - 1) : IsDigit(s[k])
                      /\ i = Len(s) + 1 \/ ~IsDigit(s[i])
        d == RunEnd - 1
        j == wordEnd(s, d + 3)
    IN IF /\ d >= 1
          /\ Len(s) >= d + 2
          /\ s[d + 1] = "-"
          /\ IsLetter(s[d + 2])
          /\ SubSeq(s, j, Len(s)) \in TsOrJs
       THEN {[stamp |-> SubSeq(s, 1, d), name |-> SubSeq(s, d + 2, j - 1)]}
       ELSE {}
\* pattern.test(fileName)
patternTestAnyDigits(fileName) == matchAnyDigits(fileName) # {}
patternTest(fileName) == matchFileName(fileName) # {}
validateMigrationFileName(fileName) == Return({patternTest(fileName)})
\* fileName.match(...): null, or the timestamp parsed and the name
parseMigrationFileNameAnyDigits(fileName) ==
    Return({[timestamp |-> parseInt(m.stamp), name |-> m.name] :
                m \in matchAnyDigits(fileName)})
parseMigrationFileName(fileName) ==
    Return({[timestamp |-> parseInt(m.stamp), name |-> m.name] :
                m \in matchFileName(fileName)})

\* ---- the migration template
\* str.split(/[-_\s]+/): the words between runs of separators; a separator
\* at either end leaves an empty word there
IsSeparator(ch) == ch \in {"-", "_", " "}
RECURSIVE splitFrom(_, _, _, _)
splitFrom(str, i, word, words) ==
    IF i > Len(str) THEN Append(words, word)
    ELSE IF IsSeparator(str[i])
         THEN IF i > 1 /\ IsSeparator(str[i - 1])
              THEN splitFrom(str, i + 1, word, words)
              ELSE splitFrom(str, i + 1, <<>>, Append(words, word))
         ELSE splitFrom(str, i + 1, Append(word, str[i]), words)
\* word.charAt(0).toUpperCase() + word.slice(1).toLowerCase()
capitalize(word) ==
    [i \in 1..Len(word) |-> IF i = 1 THEN toUpperCase(word[i])
                            ELSE toLowerCase(word[i])]
RECURSIVE join(_)
join(words) ==
    IF words = <<>> THEN <<>> ELSE Head(words) \o join(Tail(words))
toPascalCase(str) ==
    LET words == splitFrom(str, 1, <<>>, <<>>)
    IN join([i \in 1..Len(words) |-> capitalize(words[i])])
\* the text of the template is fixed but for what is put into it: the class
\* name (in the header, the class declaration and the logger), the name
\* (in the description and the log messages), the database, and the time
\* of the call
getMigrationTemplate(name, timestamp, database, now) ==
    LET className == toPascalCase(name)
    IN Return({[header |-> className,
                class |-> className \o numberToString(timestamp),
                description |-> name,
                database |-> database,
                created |-> now]})

\* ---- the strings the utilities are given
\* the number 1234567890123... of k digits
Stamp(k) == [i \in 1..k |-> i % 10]
AddUserTable == <<"A", "d", "d", "U", "s", "e", "r", "T", "a", "b", "l", "e">>
\* the number 8765432109876... of k digits
StampDown(k) == [i \in 1..k |-> 9 - (i % 10)]
NameParts ==
    {<<>>, AddUserTable, <<"a">>, <<"1", "a", "b">>, <<"a", "_", "b">>,
     <<"A", "1">>}
\* `${timestamp}-${name}.${ext}`
buildFileName(timestamp, name, ext) ==
    numberToString(timestamp) \o <<"-">> \o name \o <<".">> \o ext
FileNames ==
    {numberToString(n) \o sep \o name \o ext :
        n \in {Stamp(k) : k \in 0..MaxDigits}
                 \cup {StampDown(k) : k \in 0..MaxDigits},
        sep \in {<<"-">>, <<"_">>}, name \in NameParts,
        ext \in {<<".", "t", "s">>, <<".", "j", "s">>, <<".", "t", "s", "t">>,
                 <<"t", "s">>, <<".", "T", "S">>}}
    \cup {<<"0">> \o buildFileName(Stamp(TimestampDigits - 1), AddUserTable,
                                   <<"t", "s">>),
          buildFileName(Stamp(TimestampDigits), AddUserTable, <<"t", "s">>)
              \o <<"\n">>,
          <<" ">> \o buildFileName(Stamp(TimestampDigits), AddUserTable,
                                   <<"t", "s">>)}
MigrationNames ==
    {AddUserTable,
     <<"a", "d", "d", "-", "u", "s", "e", "r">>,
     <<"a", "d", "d", "_", "_", "u", "s", "e", "r", " ", "t", "a", "b", "l", "e">>,
     <<"a", "d", "d", "U", "s", "e", "r">>,
     <<"-", "a", "d", "d">>,
     <<"A", "D", "D">>,
     <<>>}
Times == 1..NumTicks

\* the utilities are applied to the string the state holds
ValidateMigrationFileName ==
    /\ CanStart
    /\ ret' = [Call("validateMigrationFileName", "none",
                    validateMigrationFileName(ret.text)) EXCEPT
                  !.text = ret.text]
    /\ run' = ForgetRun /\ rev' = ForgetRev /\ tx' = ForgetTx
    /\ health' = ForgetHealth
    /\ UNCHANGED <<registryVars, migratorVars, store, concurrent, utilVars>>

ParseMigrationFileName ==
    /\ CanStart
    /\ ret' = [Call("parseMigrationFileName", "none",
                    parseMigrationFileName(ret.text)) EXCEPT
                  !.text = ret.text]
    /\ run' = ForgetRun /\ rev' = ForgetRev /\ tx' = ForgetTx
    /\ health' = ForgetHealth
    /\ UNCHANGED <<registryVars, migratorVars, store, concurrent, utilVars>>

\* the clock is read when the text is rendered
GetMigrationTemplate(timestamp, database) ==
    /\ CanStart
    /\ \E now \in Times :
         ret' = [Call("getMigrationTemplate", database,
                      getMigrationTemplate(ret.text, timestamp, database, now))
                   EXCEPT !.text = ret.text, !.timestamp = timestamp]
    /\ run' = ForgetRun /\ rev' = ForgetRev /\ tx' = ForgetTx
    /\ health' = ForgetHealth
    /\ UNCHANGED <<registryVars, migratorVars, store, concurrent, utilVars>>

\* ---------------------------------------------------------- specification
\* the state after construction: the handles are what was injected, no
\* connection has been opened
InitRegistry ==
    /\ em \in [Targets -> BOOLEAN]
    /\ conn = [t \in Targets |-> "never"]
    /\ closeAttempted = [t \in Targets |-> FALSE]
    /\ lifecycle = "constructed"
    /\ ret = NoCall
    /\ health = IdleHealth

\* the migration files on disk are the first k of the sequence; none has run
InitMigrator ==
    /\ files \in [Targets -> {1..k : k \in 0..NumUnits}]
    /\ executed = [t \in Targets |-> <<>>]
    /\ allOrNothing \in BOOLEAN
    /\ run = [c \in Callers |-> IdleRun]
    /\ rev = IdleRev

NoMigrator ==
    /\ files = [t \in Targets |-> {}]
    /\ executed = [t \in Targets |-> <<>>]
    /\ allOrNothing = TRUE
    /\ run = [c \in Callers |-> IdleRun]
    /\ rev = IdleRev

InitStore ==
    /\ store = [t \in Targets |-> {}]
    /\ tx = IdleTx

\* no file has been written, no utility call is in flight
InitFiles ==
    /\ disk = [p \in Paths |-> Absent]
    /\ cf = [c \in Callers |-> IdleCreate]
    /\ st = IdleStatus

Init == InitRegistry /\ InitMigrator /\ InitStore /\ InitFiles
        /\ concurrent = FALSE

NextRunner ==
    \/ \E t \in Targets : GetConnection(t)
    \/ OnModuleInit
    \/ OnModuleDestroy
    \/ \E c \in Callers, db \in Databases : RunMigrationsBegin(c, db)
    \/ \E c \in Callers : RunMigrationsApply(c)
    \/ \E c \in Callers : RunMigrationsEnd(c)
    \/ \E db \in Databases : RevertBegin(db)
    \/ RevertApply
    \/ \E db \in Databases : GetMigrationStatus(db)
    \/ \E db \in Databases : GetMigrationHistory(db)

NextFacade ==
    \/ \E t \in Targets : GetConnection(t)
    \/ OnModuleInit
    \/ OnModuleDestroy
    \/ \E db \in Databases : TransactionBegin(db)
    \/ \E id \in Ids : TransactionWrite(id)
    \/ \E raised \in BOOLEAN : TransactionSettle(raised)
    \/ \E db \in Databases, id \in Ids : Create(db, id)
    \/ \E db \in Databases, id \in Ids : FindOne(db, id)
    \/ \E db \in Databases, where \in SUBSET Ids : Find(db, where)
    \/ \E db \in Databases, where \in SUBSET Ids : Count(db, where)
    \/ \E db \in Databases, id \in Ids : Update(db, id)
    \/ \E db \in Databases, id \in Ids : Remove(db, id)
    \/ \E db \in Databases : GetRepository(db)
    \/ \E t \in Targets : IsHealthy(t)
    \/ AllHealthBegin
    \/ \E t \in Targets : AllHealthProbe(t)
    \/ AllHealthEnd

Next ==
    \/ \E t \in Targets : GetConnection(t)
    \/ OnModuleInit
    \/ OnModuleDestroy
    \/ \E c \in Callers, db \in Databases : RunMigrationsBegin(c, db)
    \/ \E c \in Callers : RunMigrationsApply(c)
    \/ \E c \in Callers : RunMigrationsEnd(c)
    \/ \E db \in Databases : RevertBegin(db)
    \/ RevertApply
    \/ \E db \in Databases : GetMigrationStatus(db)
    \/ \E db \in Databases : GetMigrationHistory(db)
    \/ \E db \in Databases, name \in Names : GenerateMigration(db, name)
    \/ \E db \in Databases, name \in Names : CreateMigration(db, name)
    \/ \E db \in Databases : TransactionBegin(db)
    \/ \E id \in Ids : TransactionWrite(id)
    \/ \E raised \in BOOLEAN : TransactionSettle(raised)
    \/ \E db \in Databases, id \in Ids : Create(db, id)
    \/ \E db \in Databases, id \in Ids : FindOne(db, id)
    \/ \E db \in Databases, where \in SUBSET Ids : Find(db, where)
    \/ \E db \in Databases, where \in SUBSET Ids : Count(db, where)
    \/ \E db \in Databases, id \in Ids : Update(db, id)
    \/ \E db \in Databases, id \in Ids : Remove(db, id)
    \/ \E db \in Databases : GetRepository(db)
    \/ \E t \in Targets : IsHealthy(t)
    \/ AllHealthBegin
    \/ \E t \in Targets : AllHealthProbe(t)
    \/ AllHealthEnd
    \/ FileExists

\* every operation of the layer, on one entity and for one caller
OneId == Min(Ids)
OneCaller == Min(Callers)
NextCalls ==
    \/ \E t \in Targets : GetConnection(t)
    \/ OnModuleInit
    \/ OnModuleDestroy
    \/ \E t \in Targets : IsHealthy(t)
    \/ AllHealthBegin
    \/ \E t \in Targets : AllHealthProbe(t)
    \/ AllHealthEnd
    \/ \E db \in Databases : RunMigrationsBegin(OneCaller, db)
    \/ RunMigrationsApply(OneCaller)
    \/ RunMigrationsEnd(OneCaller)
    \/ \E db \in Databases : RevertBegin(db)
    \/ RevertApply
    \/ \E db \in Databases : GetMigrationStatus(db)
    \/ \E db \in Databases : GetMigrationHistory(db)
    \/ \E db \in Databases, name \in Names : GenerateMigration(db, name)
    \/ \E db \in Databases, name \in Names : CreateMigration(db, name)
    \/ \E db \in Databases : TransactionBegin(db)
    \/ TransactionWrite(OneId)
    \/ \E raised \in BOOLEAN : TransactionSettle(raised)
    \/ \E db \in Databases : Create(db, OneId)
    \/ \E db \in Databases : FindOne(db, OneId)
    \/ \E db \in Databases : Find(db, {OneId})
    \/ \E db \in Databases : Count(db, {OneId})
    \/ \E db \in Databases : Update(db, OneId)
    \/ \E db \in Databases : Remove(db, OneId)
    \/ \E db \in Databases : GetRepository(db)
    \/ FileExists

\* every migration file is on disk and none has run; the migrators run with
\* the settings of the library, which the module configuration leaves alone
AllFilesPending ==
    /\ files = [t \in Targets |-> Units]
    /\ executed = [t \in Targets |-> <<>>]
    /\ allOrNothing = TRUE
    /\ run = [c \in Callers |-> IdleRun]
    /\ rev = IdleRev

InitCalls == InitRegistry /\ AllFilesPending /\ InitStore /\ InitFiles
             /\ concurrent = FALSE

InitRunner == InitRegistry /\ InitMigrator /\ InitStore /\ InitFiles
              /\ concurrent = FALSE
InitFacade == InitRegistry /\ NoMigrator /\ InitStore /\ InitFiles
              /\ concurrent = FALSE

\* the file-name utilities and the template, applied to one string: no
\* connection is in use
NextNames ==
    \/ ValidateMigrationFileName
    \/ ParseMigrationFileName
    \/ \E k \in {TimestampDigits, MaxDigits}, database \in Targets :
         GetMigrationTemplate(Stamp(k), database)

InitNames ==
    /\ em = [t \in Targets |-> TRUE]
    /\ conn = [t \in Targets |-> "never"]
    /\ closeAttempted = [t \in Targets |-> FALSE]
    /\ lifecycle = "constructed"
    /\ ret \in {[NoCall EXCEPT !.text = str] : str \in FileNames \cup MigrationNames}
    /\ health = IdleHealth
    /\ NoMigrator
    /\ InitStore
    /\ InitFiles
    /\ concurrent = FALSE

\* createFile calls, which may overlap
NextFiles ==
    \/ \E c \in Callers, path \in Paths, content \in Contents,
          override \in BOOLEAN : CreateFileBegin(c, path, content, override)
    \/ \E c \in Callers : CreateFileCheck(c)
    \/ \E c \in Callers : CreateFileWrite(c)

InitOverlap ==
    /\ InitRegistry /\ NoMigrator /\ InitStore /\ InitFiles
    /\ concurrent = TRUE

\* the migration executor with calls that overlap: the connections are
\* opened, then runMigrations and getMigrationStatus calls on one database
\* are made while others are in flight
OneTarget == "postgresql"
NextRace ==
    \/ OnModuleInit
    \/ \E c \in Callers : RunMigrationsBegin(c, OneTarget)
    \/ \E c \in Callers : RunMigrationsApply(c)
    \/ \E c \in Callers : RunMigrationsEnd(c)
    \/ GetMigrationStatusPending(OneTarget)
    \/ GetMigrationStatusExecuted

\* both handles were injected
InitRace ==
    /\ em = [t \in Targets |-> TRUE]
    /\ conn = [t \in Targets |-> "never"]
    /\ closeAttempted = [t \in Targets |-> FALSE]
    /\ lifecycle = "constructed"
    /\ ret = NoCall
    /\ health = IdleHealth
    /\ AllFilesPending /\ InitStore /\ InitFiles
    /\ concurrent = TRUE

\* the migration executor creating migration files, calls one at a time
NextNewMigration ==
    \/ \E t \in Targets : GetConnection(t)
    \/ OnModuleInit
    \/ OnModuleDestroy
    \/ \E db \in Databases, name \in Names : GenerateMigration(db, name)
    \/ \E db \in Databases, name \in Names : CreateMigration(db, name)
    \/ \E db \in Databases : GetMigrationStatus(db)

\* the whole layer, calls one at a time
Spec == Init /\ [][Next]_vars
\* the connection manager and the migration executor, calls one at a time
SpecRunner == InitRunner /\ [][NextRunner]_vars
\* the connection manager and the entity manager service, calls one at a time
SpecFacade == InitFacade /\ [][NextFacade]_vars
\* every operation of the layer, calls one at a time
SpecCalls == InitCalls /\ [][NextCalls]_vars
\* the file-name utilities and the template
SpecNames == InitNames /\ [][NextNames]_vars
\* createFile, calls overlapping
SpecFiles == InitOverlap /\ [][NextFiles]_vars
\* the migration executor, calls overlapping
SpecRace == InitRace /\ [][NextRace]_vars
\* the migration executor creating migration files
SpecNewMigration == InitRunner /\ [][NextNewMigration]_vars

\* ================================================================ claims
\* ---- the connection manager (checked under SpecFacade)

\* C1: after shutdown() has completed, and before initialize() has run,
\* getConnection(target) fails with "connection unavailable" for every
\* target.  (Stated as the claim has it; the getters test only the handle.)
C1_GetConnectionFailsWhenNotLive ==
    (ret.op = "getConnection" /\ ret.at \in {"constructed", "destroyed"})
        => /\ ret.result.outcome = "throw"
           /\ ret.result.error = Unavailable(ret.target)

\* C2: between a normal return of initialize() and shutdown(),
\* getConnection(target) returns the handle of the target, for both targets.
C2_GetConnectionReturnsWhileInitialized ==
    (ret.op = "getConnection" /\ ret.at = "initialized")
        => /\ ret.result.outcome = "return"
           /\ ret.result.value = {ret.target}

\* C3: initialize() returns normally only when both connections have been
\* opened; otherwise (a connect fails, a handle is missing) it throws.
C3_InitializeAllOrNothing ==
    ret.op = "onModuleInit"
        => (ret.result.outcome = "return" <=> \A t \in Targets : conn[t] = "open")

\* C4: after shutdown() every handle has had a close attempt, also when
\* closing the relational handle failed.
C4_ShutdownAttemptsEveryClose ==
    ret.op = "onModuleDestroy"
        => \A t \in Targets : em[t] => closeAttempted[t]

\* C5: shutdown() never raises to its caller: whichever close call fails,
\* the failure is logged and shutdown() returns normally.
C5_ShutdownNeverRaises ==
    ret.op = "onModuleDestroy"
        => /\ ret.result.outcome = "return"
           /\ ret.closeResult.outcome = "throw" => ret.result.logged
C5_Witness ==
    /\ ret.op = "onModuleDestroy"
    /\ ret.closeResult.outcome = "throw"
    /\ ret.closeResult.error = CloseError("mongodb")

\* ---- the entity manager service (checked under SpecFacade)

\* C6: when the work of transaction(target, work) raises after some writes,
\* none of the writes is in the store once the caller has the error, and the
\* error the caller has is the one the work raised.
C6_TransactionAllOrNothing ==
    (tx.pc = "done" /\ tx.raised)
        => /\ store[tx.target] = tx.before
           /\ tx.result.outcome = "throw"
           /\ tx.result.error = WorkError(tx.target)
C6_Witness ==
    /\ tx.pc = "done"
    /\ tx.raised
    /\ tx.writes # {}
    /\ tx.writes \cap tx.before = {}

\* ---- the migration executor (checked under SpecRunner)
IsAscending(s) == \A i \in 1..Len(s) : \A j \in 1..Len(s) : i < j => s[i] < s[j]
PendingAt(t, rows) == files[t] \ Range(rows)

\* C7: one runMigrations call applies the units that were pending when it
\* started in ascending timestamp order, none skipped; when a unit fails no
\* later unit is applied in the call and the call throws, the error carrying
\* the failure of that unit.
C7_RunAppliesInOrderAndStops ==
    \A c \in Callers :
        (run[c].target \in Targets /\ run[c].pc \in {"up", "done"}) =>
            LET t == run[c].target
                done == run[c].applied
                pend == SortedSeq(PendingAt(t, run[c].before))
            IN /\ IsAscending(done)
               /\ Len(done) <= Len(pend)
               /\ \A i \in 1..Len(done) : done[i] = pend[i]
               /\ run[c].failed # 0 =>
                    /\ run[c].pc = "done"
                    /\ Len(done) < Len(pend)
                    /\ run[c].failed = pend[Len(done) + 1]
                    /\ \A u \in Range(executed[t]) \ Range(run[c].before) :
                         u < run[c].failed
                    /\ run[c].result.outcome = "throw"
                    /\ run[c].result.error = UpFailed(t, run[c].failed)
C7_Witness ==
    \E c \in Callers :
        /\ run[c].pc = "done"
        /\ run[c].failed = 2
        /\ run[c].applied = <<1>>
        /\ 3 \in files[run[c].target]

\* C8: after any sequence of runMigrations and revertLastMigration calls,
\* failed ones included, the executed units of a target are a timestamp
\* prefix of its units: no pending unit is older than an executed one.
C8_ExecutedIsPrefix ==
    \A t \in Targets :
        \A u \in Range(executed[t]) :
            \A v \in files[t] : v < u => v \in Range(executed[t])
C8_Witness ==
    /\ rev.pc = "done"
    /\ rev.result.outcome = "return"
    /\ rev.unit = 2
    /\ executed[rev.target] = <<1>>
    /\ 3 \in files[rev.target]

C10_RunReturnsCount ==
    \A c \in Callers :
        (run[c].pc = "done" /\ run[c].result.outcome = "return")
            => run[c].result.value = {Len(run[c].applied)}

\* C11 (as stated): a failed apply leaves the unit pending, a failed revert
\* leaves the unit executed, and the units applied earlier in the same
\* runMigrations call stay executed.
C11_EarlierUnitsStayExecuted ==
    /\ \A c \in Callers :
         (run[c].pc = "done" /\ run[c].failed # 0) =>
             LET t == run[c].target
             IN /\ run[c].failed \in Range(Pending(t))
                /\ \A u \in Range(run[c].applied) : u \in Range(Executed(t))
    /\ (rev.pc = "done" /\ rev.result.outcome = "throw" /\ rev.unit # 0) =>
         rev.unit \in Range(Executed(rev.target))

\* C11 (amended): a failed apply leaves the unit pending and a failed revert
\* leaves the unit executed; the failed unit is attempted once, the call
\* ends with it.  The units applied earlier in the same runMigrations call
\* stay executed when the migrator records each migration as it completes;
\* when it wraps the call in one transaction (allOrNothing) they are rolled
\* back with the failed unit and the migrations table is what it was before
\* the call.
C11_FailedUnitsKeepStatus ==
    /\ \A c \in Callers :
         (run[c].pc \in {"up", "done"} /\ run[c].failed # 0) =>
             LET t == run[c].target
             IN /\ run[c].pc = "done"
                /\ Head(run[c].todo) = run[c].failed
                /\ run[c].failed \notin Range(run[c].applied)
                /\ run[c].failed \in Range(Pending(t))
                /\ Executed(t) = IF allOrNothing THEN run[c].before
                                 ELSE run[c].before \o run[c].applied
    /\ (rev.pc = "done" /\ rev.result.outcome = "throw" /\ rev.unit # 0) =>
         /\ rev.result.error = DownFailed(rev.target, rev.unit)
         /\ Executed(rev.target) = rev.before
         /\ rev.unit \in Range(Executed(rev.target))
C11_Witness ==
    \E c \in Callers :
        /\ run[c].pc = "done"
        /\ run[c].failed = 3
        /\ run[c].applied = <<2>>
        /\ allOrNothing
        /\ Executed(run[c].target) = <<1>>

\* C12: a revertLastMigration(target) that returns normally has reverted
\* exactly one unit, the one executed last on the target: that unit is
\* pending afterwards, every other unit of the target keeps its status and
\* the migrations table of the other target is untouched.
C12_RevertRevertsExactlyTheLast ==
    [][(rev'.pc = "done" /\ rev.pc # "done" /\ rev'.result.outcome = "return") =>
          LET t == rev'.target
              u == rev'.unit
          IN /\ Executed(t) # <<>>
             /\ u = Executed(t)[Len(Executed(t))]
             /\ executed'[t] = SubSeq(Executed(t), 1, Len(Executed(t)) - 1)
             /\ u \notin Range(executed'[t])
             /\ \A o \in Targets \ {t} : executed'[o] = executed[o]
             /\ files' = files]_vars

\* C13: revertLastMigration(target) called when the target has no executed
\* unit throws; it never returns normally in that state.
C13_RevertWithNothingExecutedFails ==
    (rev.pc = "done" /\ rev.target \in Targets /\ rev.before = <<>>)
        => rev.result.outcome = "throw"

\* what one sequence is to another it extends
IsPrefix(s, t) == Len(s) <= Len(t) /\ \A i \in 1..Len(s) : s[i] = t[i]

\* C14: the sequence getMigrationHistory(target) returns is append-only:
\* whatever the runner does, the records it returned before the step are
\* returned after it, unchanged and in the same positions.
C14_HistoryIsAppendOnly ==
    [][\A t \in Targets : IsPrefix(migrationHistory(t), migrationHistory(t)')]_vars

\* ---- the entity manager service, one entity at a time (SpecFacade)

\* C16: remove(target, entity) on an entity that is no longer in the store
\* throws (not found) and leaves the store as it was.
C16_RemoveOfDeletedFails ==
    (ret.op = "remove" /\ ret.target \in Targets /\ ret.id \notin ret.before)
        => /\ ret.result.outcome = "throw"
           /\ store[ret.target] = ret.before

\* C17: update(target, entity) on an entity that is no longer in the store
\* throws and does not create the entity again; on an entity that is in the
\* store it returns and a mutated entity is flushed by an UPDATE, which
\* advances updatedAt.
C17_UpdateOfDeletedFails ==
    (ret.op = "update" /\ ret.target \in Targets) =>
        /\ ret.id \notin ret.before =>
             /\ ret.result.outcome = "throw"
             /\ store[ret.target] = ret.before
        /\ (ret.id \in ret.before /\ ret.result.outcome = "return") =>
             /\ store[ret.target] = ret.before
             /\ ret.wrote \in {"update", "nothing"}

\* ---- health (SpecFacade)

\* C18: isHealthy(target) never throws: it returns true when the probe
\* round trip succeeded and false when the probe failed for whatever reason
\* (a missing handle and a connection that is not open included), and then
\* the failure is logged; for both targets, in every lifecycle state.
C18_IsHealthyNeverRaises ==
    ret.op = "isHealthy" =>
        /\ ret.result.outcome = "return"
        /\ ret.result.value = {ret.probe.outcome = "return"}
        /\ ret.probe.outcome = "throw" => ret.result.logged
C18_Witness ==
    /\ ret.op = "isHealthy"
    /\ ret.target = "mongodb"
    /\ ret.at = "destroyed"
    /\ ret.probe.outcome = "throw"
    /\ ret.probe.error = NotConnected("mongodb")
    /\ ret.result.value = {FALSE}

\* C19: getAllHealth returns, and never throws, a mapping with one entry
\* per target, the entry of a target being the outcome of that target's
\* probe, in whichever order the two probes settle and also when probes
\* fail.
C19_AllHealthMapsEveryTarget ==
    health.pc = "done" =>
        /\ health.result.outcome = "return"
        /\ health.result.value =
             {[t \in Targets |-> health.probe[t].outcome = "return"]}
C19_Witness ==
    /\ health.pc = "done"
    /\ health.order = <<"mongodb", "postgresql">>
    /\ health.probe["mongodb"].outcome = "return"
    /\ health.probe["postgresql"].outcome = "throw"

\* ---- every operation (SpecCalls)
FacadeOps == {"create", "findOne", "find", "update", "remove", "count"}
RunnerOps == {"getMigrationStatus", "getMigrationHistory",
              "generateMigration", "createMigration"}
NewMigrationOps == {"generateMigration", "createMigration"}
FailsUnsupported(r, db) ==
    /\ r.outcome = "throw"
    /\ r.error = Unsupported(db)
NotADatabase(db) == db \notin Targets \cup {"none"}

\* C15: every operation of the entity manager service and of the migration
\* executor that is called with a database other than "postgresql" and
\* "mongodb" throws the unsupported-database error.
C15_EveryOperationFailsOnUnsupported ==
    /\ (ret.op \in FacadeOps \cup RunnerOps \cup {"getRepository"}
            /\ NotADatabase(ret.target))
         => FailsUnsupported(ret.result, ret.target)
    /\ \A c \in Callers :
         NotADatabase(run[c].target) => FailsUnsupported(run[c].result, run[c].target)
    /\ NotADatabase(rev.target) => FailsUnsupported(rev.result, rev.target)
    /\ NotADatabase(tx.target) => FailsUnsupported(tx.result, tx.target)

\* the call could not reach the database: no such database, no handle, or
\* a connection that is not open
Unreachable(db) == db \notin Targets \/ ~em[db] \/ conn[db] # "open"
NoHandleFor(db) == db \notin Targets \/ ~em[db]
Rethrown(r) == r.outcome = "throw" /\ r.logged /\ r.error # NoError
NothingUnlogged(r) == r.outcome = "throw" => r.logged /\ r.error # NoError

\* the thirteen operations: what each one hit, and what its caller got
FacadeAndRunnerRethrow ==
    /\ ret.op \in FacadeOps \cup {"getMigrationStatus", "getMigrationHistory"} =>
         /\ Unreachable(ret.target) => Rethrown(ret.result)
         /\ NothingUnlogged(ret.result)
    /\ ret.op \in NewMigrationOps =>
         /\ (ret.name # "" /\ NoHandleFor(ret.target)) => Rethrown(ret.result)
         /\ NothingUnlogged(ret.result)
    /\ \A c \in Callers :
         run[c].pc = "done" =>
             /\ (Unreachable(run[c].target) \/ run[c].failed # 0)
                    => Rethrown(run[c].result)
             /\ run[c].failed # 0
                    => run[c].result.error = UpFailed(run[c].target, run[c].failed)
             /\ NothingUnlogged(run[c].result)
    /\ rev.pc = "done" =>
         /\ Unreachable(rev.target) => Rethrown(rev.result)
         /\ NothingUnlogged(rev.result)
    /\ tx.pc = "done" =>
         /\ (Unreachable(tx.target) \/ tx.raised) => Rethrown(tx.result)
         /\ (~Unreachable(tx.target) /\ tx.raised)
                => tx.result.error = WorkError(tx.target)
         /\ NothingUnlogged(tx.result)

\* C20 (as stated): no failure of an operation of the entity manager
\* service or of the migration executor is swallowed, each is logged and
\* thrown again; the only failures that end in a normal return are those of
\* the health probes and of the file-existence check.
C20_OnlyProbesAndFileChecksSwallow ==
    /\ FacadeAndRunnerRethrow
    /\ (ret.result.outcome = "return"
            /\ (ret.probe.outcome = "throw" \/ ret.closeResult.outcome = "throw"))
         => ret.op \in {"isHealthy", "fileExists"}

\* C20 (amended): no failure of an operation of the entity manager service
\* or of the migration executor is swallowed, each is logged and thrown
\* again; the only failures that end in a normal return are those of the
\* health probes, of the file-existence check and of the close calls of
\* shutdown (logged, shutdown returns); initialize and getConnection throw
\* what they hit.
C20_NoFailureSwallowed ==
    /\ FacadeAndRunnerRethrow
    /\ (ret.result.outcome = "return"
            /\ (ret.probe.outcome = "throw" \/ ret.closeResult.outcome = "throw"))
         => /\ ret.op \in {"isHealthy", "fileExists", "onModuleDestroy"}
            /\ ret.op # "fileExists" => ret.result.logged
    /\ (ret.op = "onModuleInit" /\ ret.result.outcome = "return")
         => \A t \in Targets : em[t] => conn[t] = "open"
    /\ ret.op = "onModuleInit" => NothingUnlogged(ret.result)
    /\ (ret.op = "getConnection" /\ ~em[ret.target])
         => ret.result.outcome = "throw"
C20_Witness ==
    /\ ret.op = "getMigrationHistory"
    /\ ret.result.outcome = "throw"
    /\ ret.result.logged
    /\ ret.result.error = ReadFailed("mongodb")
    /\ executed["mongodb"] # <<>>

\* ---- the connection manager, a failed start (SpecFacade)

\* C30: when initialize() fails because MongoDB's connect() rejects after
\* PostgreSQL's connection was opened, the error is logged and thrown again
\* with PostgreSQL's connection still open; an open connection stops being
\* open only in shutdown().
C30_FailedInitLeavesRelationalOpen ==
    [][/\ (ret'.op = "onModuleInit" /\ em["postgresql"]
             /\ ret'.result.error = ConnectError("mongodb")) =>
            /\ ret'.result.outcome = "throw"
            /\ ret'.result.logged
            /\ conn'["postgresql"] = "open"
            /\ lifecycle' = "initFailed"
       /\ \A t \in Targets :
            (conn[t] = "open" /\ conn'[t] # "open") =>
                ret'.op = "onModuleDestroy" /\ lifecycle' = "destroyed"]_vars
C30_Witness ==
    /\ lifecycle = "initFailed"
    /\ conn = [t \in Targets |-> IF t = "postgresql" THEN "open" ELSE "never"]
    /\ ret.op = "isHealthy"
    /\ ret.target = "postgresql"
    /\ ret.result.value = {TRUE}

\* ---- the file-name utilities and the template (SpecNames)
\* the grammar ^\d{13}-[A-Za-z][A-Za-z0-9]*\.(ts|js)$, read off the string
\* from both ends
InNameGrammar(name) ==
    /\ Len(name) >= 1
    /\ IsLetter(name[1])
    /\ \A i \in 2..Len(name) : IsLetter(name[i]) \/ IsDigit(name[i])
InGrammar(str) ==
    /\ Len(str) >= 13 + 5
    /\ \A i \in 1..13 : IsDigit(str[i])
    /\ str[14] = "-"
    /\ InNameGrammar(SubSeq(str, 15, Len(str) - 3))
    /\ str[Len(str) - 2] = "."
    /\ <<str[Len(str) - 1], str[Len(str)]>> \in {<<"t", "s">>, <<"j", "s">>}

C25_TenDigitExampleIsAccepted ==
    ret.text = buildFileName(Stamp(10), AddUserTable, <<"t", "s">>) =>
        /\ ret.op = "validateMigrationFileName" => ret.result.value = {TRUE}
        /\ ret.op = "parseMigrationFileName" =>
               ret.result.value = {[timestamp |-> Stamp(10), name |-> AddUserTable]}

\* C27: two calls of getMigrationTemplate with the same name, timestamp and
\* target return the same text
C27_SameArgumentsSameText ==
    [][(/\ ret.op = "getMigrationTemplate"
        /\ ret'.op = "getMigrationTemplate"
        /\ ret'.text = ret.text
        /\ ret'.timestamp = ret.timestamp
        /\ ret'.target = ret.target) =>
           ret'.result = ret.result]_vars

\* ---- createFile (SpecFiles)
\* C26: a createFile call without override never changes the content of a
\* file that exists, whatever createFile calls came before it or are in
\* flight with it: of two such calls on one new path, the content of the
\* first to write stays
C26_ExistingFileIsNeverOverwritten ==
    [][\A c \in Callers :
         (cf[c].pc # "done" /\ cf'[c].pc = "done" /\ ~cf[c].override) =>
             \A p \in Paths : disk[p] # Absent => disk'[p] = disk[p]]_vars

\* ---- the migration executor, calls overlapping (SpecRace)
\* C28: the runner takes no lock.  The work of a runMigrations call is what
\* the migrations table shows as pending when the call starts, whatever
\* other calls on the target have in flight; so (the witness) two calls on
\* one target are in progress together, both took the same unit as pending
\* and both have applied it.
C28_RunTakesWhatTheTableShowsPending ==
    \A c \in Callers :
        run[c].pc = "up" =>
            run[c].applied \o run[c].todo =
                SortedSeq(PendingAt(run[c].target, run[c].before))
C28_Witness ==
    \E c1 \in Callers, c2 \in Callers :
        /\ c1 # c2
        /\ run[c1].pc = "up" /\ run[c2].pc = "up"
        /\ run[c1].target = run[c2].target
        /\ run[c1].before = run[c2].before
        /\ \E u \in Units : /\ u \in Range(run[c1].applied)
                             /\ u \in Range(run[c2].applied)
                             /\ u \notin Range(run[c1].before)

\* C29: the two sequences a getMigrationStatus call returns are a
\* consistent snapshot: no unit is in both, every unit of the target is in
\* one of them, also when a runMigrations or a revertLastMigration step on
\* the target falls between the two reads
C29_StatusIsASnapshot ==
    (st.pc = "done" /\ st.result.outcome = "return") =>
        \A s \in st.result.value :
            /\ Range(s.pending) \cap Range(s.executed) = {}
            /\ Range(s.pending) \cup Range(s.executed) = files[st.target]

\* ---- the migration executor creating migration files (SpecNewMigration)
\* C21: every createMigration(target, name) call that returns normally, for
\* any name, has created exactly one new unit of the target, which is
\* pending
C21_CreateAlwaysCreatesOneUnit ==
    [][(/\ ret'.op = "createMigration"
        /\ ret'.target \in Targets
        /\ ret'.result.outcome = "return") =>
           \E u \in Units \ files[ret'.target] :
               /\ files' = [files EXCEPT ![ret'.target] = @ \cup {u}]
               /\ u \notin Range(executed'[ret'.target])]_vars

\* C22: generateMigration(target, name) returns normally and creates no
\* unit when the schema does not differ; when it differs it creates
\* exactly one new unit, whose file carries the given name
C22_GenerateCreatesTheNamedUnit ==
    [][(ret'.op = "generateMigration" /\ ret'.target \in Targets) =>
           \/ /\ ret'.result.outcome = "throw"
              /\ files' = files
           \/ /\ ret'.result.outcome = "return"
              /\ ret'.wrote = "nothing"
              /\ files' = files
           \/ /\ ret'.result.outcome = "return"
              /\ \E u \in Units \ files[ret'.target] :
                   files' = [files EXCEPT ![ret'.target] = @ \cup {u}]
              /\ ret'.fileName = migrationFileName(<<ret'.name>>)]_vars

====
